---- MODULE Spec2Model ----
(***************************************************************************)
(* YourSlidingWindowInferer (modules/2d_inference_3d_volume.ipynb): a      *)
(* subclass of the library's SlidingWindowInferer that lets a 2D network   *)
(* be driven over a 3D volume.  Tensors are modelled by their shapes       *)
(* (sequences of extents, batch and channel first).  The library's         *)
(* sliding-window primitive and the network are the environment: the       *)
(* primitive forms tile batches of the ROI's spatial extents, calls the    *)
(* adapter on each and stitches the results.                               *)
(***************************************************************************)
EXTENDS Integers, Sequences, FiniteSets, TLC

VARIABLES
    pc,             \* "new" | "idle" | "prim" | "net" | "done"
    spatial_dim,    \* self.spatial_dim
    roi_size,       \* self.roi_size
    sw_batch_size,  \* self.sw_batch_size
    cval,           \* self.cval
    inputs,         \* shape of the volume of the current call
    network,        \* the network of the current call
    slice_axis,     \* the slice_axis argument of the current call
    result,         \* outcome of the call
    output,         \* shape of the volume the call returned
    primCalls,      \* invocations of the primitive in the current call
    roiPassed,      \* self.roi_size as the primitive saw it on entry
    nTiles,         \* tile batches the primitive decided to form
    adapterCalls,   \* invocations of network_wrapper in the current call
    modelCalls,     \* invocations of the network in the current call
    tile,           \* tile batch handed to the adapter
    squeezed,       \* TRUE iff the adapter took the 2D branch for this tile
    modelArg,       \* tensor the network was invoked on
    modelOut,       \* tensor the network returned
    adapterRet,     \* tensor the adapter returned to the primitive
    roi0,           \* the roi_size the constructor was given
    calls,          \* invocations of __call__ so far, counted up to MaxCalls
    roiLog3,        \* ROI the primitive saw, per delegated call with a 3D input
                    \* (the first MaxCalls of them)
    args0,          \* spatial_dim, sw_batch_size and cval as constructed
    axisGiven,      \* TRUE iff the constructor was given a spatial_dim
    extraArgs,      \* number of further arguments (*args, **kwargs) of the call
    primArgc,       \* number of arguments the primitive was invoked with
    modelArgc,      \* number of arguments the network was invoked with
    normFailed      \* TRUE iff the first call normalized the ROI and then
                    \* failed in the primitive, the adapter or the network

vars == <<pc, spatial_dim, roi_size, sw_batch_size, cval, inputs, network,
          slice_axis, result, output, primCalls, roiPassed, nTiles,
          adapterCalls, modelCalls, tile, squeezed, modelArg, modelOut,
          adapterRet, roi0, calls, roiLog3, args0, axisGiven, extraArgs,
          primArgc, modelArgc, normFailed>>

instance == <<spatial_dim, roi_size, sw_batch_size, cval>>

history == <<roi0, calls, roiLog3, args0, axisGiven>>

----------------------------------------------------------------------------
(* Bounds *)

MaxTiles == 2       \* tile batches per call range over 1..MaxTiles
MaxCalls == 2       \* calls are counted, and delegated ROIs logged, up to MaxCalls

(* Arguments the wrapper is constructed and called with *)

\* extents of a roi_size: 1 (a slice) and proper extents
Extents == {1, 2}

BatchSizes == {1, 2}

SpatialDims == -1 .. 3

\* spatial_dim when the constructor is not given one
SpatialDimDefault == 0

\* values of __call__'s slice_axis argument; 0 when it is not given
SliceAxisArgs == {0, 2}

\* numbers of further arguments a call is given
ExtraArgs == {0, 1}

\* <<slice_axis, number of further arguments>> of a call: neither given,
\* a slice_axis given, a further argument given
CallArgs == {<<0, 0>>, <<2, 0>>, <<0, 1>>}

SeqsOfLen(S, n) == [1..n -> S]

RoiSizes == UNION {SeqsOfLen(Extents, n) : n \in 1..3}

\* the fill value the notebook constructs both inferers with
CVals == {-1}

\* (N, C, spatial...) with spatial rank 1..4
Volumes ==
    { <<1, 1, 4>>,
      <<1, 1, 4, 3>>,
      <<1, 1, 2, 3, 4>>, <<2, 1, 4, 4, 3>>,
      <<1, 1, 2, 3, 4, 2>> }

\* a network takes (B, cin, spatial of rank dims) to (B, cout, same spatial);
\* failOn = k > 0: its k-th invocation within a call raises
Networks ==
    [dims : {2, 3}, cin : {1}, cout : {1, 2}, failOn : {0}]
    \cup [dims : {2}, cin : {1}, cout : {1}, failOn : 1..MaxTiles]

NoNetwork == [dims |-> 2, cin |-> 1, cout |-> 1, failOn |-> 0]

----------------------------------------------------------------------------
(* Python / torch primitives on shapes.  Python indices are 0-based.       *)

Spatial(x) == SubSeq(x, 3, Len(x))

\* variant: the value is appended whatever the index
ListInsertAppends(s, i, v) == Append(s, v)

\* list.insert(i, v): a negative index counts from the end, then clamps
ListInsert(s, i, v) ==
    LET j == IF i < 0 THEN i + Len(s) ELSE i
        k == IF j < 0 THEN 0 ELSE IF j > Len(s) THEN Len(s) ELSE j
    IN  SubSeq(s, 1, k) \o <<v>> \o SubSeq(s, k + 1, Len(s))

\* s[i] is defined iff -len <= i < len
IndexOk(s, i) == i >= -Len(s) /\ i < Len(s)

ListIndex(s, i) == IF i < 0 THEN s[i + Len(s) + 1] ELSE s[i + 1]

\* torch.Tensor.squeeze(dim): dim must lie in [-ndim, ndim-1]
SqueezeOk(x, d) == d >= -Len(x) /\ d < Len(x)

\* the axis is dropped only when its extent is 1
Squeeze(x, d) ==
    LET p == IF d < 0 THEN d + Len(x) + 1 ELSE d + 1
    IN  IF x[p] = 1 THEN SubSeq(x, 1, p - 1) \o SubSeq(x, p + 1, Len(x)) ELSE x

\* torch.Tensor.unsqueeze(dim): the new axis becomes axis dim of the result
\* (dim here is spatial_dim + 2, within 1..4, never beyond the last axis)
Unsqueeze(x, d) ==
    LET p == IF d < 0 THEN d + Len(x) + 1 ELSE d
    IN  SubSeq(x, 1, p) \o <<1>> \o SubSeq(x, p + 1, Len(x))

----------------------------------------------------------------------------
(* The network: raises on its failOn-th invocation and on a tensor whose   *)
(* rank or channel count it was not built for.                             *)

NetRaises(net, x, k) ==
    \/ net.failOn = k
    \/ Len(x) # net.dims + 2
    \/ x[2] # net.cin

NetApply(net, x) == <<x[1], net.cout>> \o Spatial(x)

----------------------------------------------------------------------------
Init ==
    /\ pc = "new"
    /\ spatial_dim = 0
    /\ roi_size = <<>>
    /\ sw_batch_size = 1
    /\ cval = -1
    /\ inputs = <<>>
    /\ network = NoNetwork
    /\ slice_axis = 0
    /\ result = "none"
    /\ output = <<>>
    /\ primCalls = 0
    /\ roiPassed = <<>>
    /\ nTiles = 0
    /\ adapterCalls = 0
    /\ modelCalls = 0
    /\ tile = <<>>
    /\ squeezed = FALSE
    /\ modelArg = <<>>
    /\ modelOut = <<>>
    /\ adapterRet = <<>>
    /\ roi0 = <<>>
    /\ calls = 0
    /\ roiLog3 = <<>>
    /\ args0 = [spatial_dim |-> 0, sw_batch_size |-> 1, cval |-> -1]
    /\ axisGiven = FALSE
    /\ extraArgs = 0
    /\ primArgc = 0
    /\ modelArgc = 0
    /\ normFailed = FALSE

\* variant: the constructor validates the slice axis and refuses a bad one
ConstructEager(sd, roi, bs, cv) ==
    /\ pc = "new"
    /\ sd < 3
    /\ spatial_dim' = sd
    /\ roi_size' = roi
    /\ sw_batch_size' = bs
    /\ cval' = cv
    /\ pc' = "idle"
    /\ roi0' = roi
    /\ args0' = [spatial_dim |-> sd, sw_batch_size |-> bs, cval |-> cv]
    /\ UNCHANGED <<inputs, network, slice_axis, extraArgs, result, output,
                   primCalls, primArgc, roiPassed, nTiles, adapterCalls,
                   modelCalls, modelArgc, tile, squeezed, modelArg, modelOut,
                   adapterRet, calls, roiLog3, normFailed>>

\* __init__: stores spatial_dim; the base constructor stores the rest
Construct(sd, roi, bs, cv) ==
    /\ pc = "new"
    /\ spatial_dim' = sd
    /\ roi_size' = roi
    /\ sw_batch_size' = bs
    /\ cval' = cv
    /\ pc' = "idle"
    /\ roi0' = roi
    /\ args0' = [spatial_dim |-> sd, sw_batch_size |-> bs, cval |-> cv]
    /\ UNCHANGED <<inputs, network, slice_axis, extraArgs, result, output,
                   primCalls, primArgc, roiPassed, nTiles, adapterCalls,
                   modelCalls, modelArgc, tile, squeezed, modelArg, modelOut,
                   adapterRet, calls, roiLog3, normFailed>>

\* the constructor is given a spatial_dim
ConstructWithAxis(sd, roi, bs, cv) ==
    /\ Construct(sd, roi, bs, cv)
    /\ axisGiven' = TRUE

\* the constructor is not given a spatial_dim: the default is stored
ConstructDefaultAxis(roi, bs, cv) ==
    /\ Construct(SpatialDimDefault, roi, bs, cv)
    /\ axisGiven' = FALSE

----------------------------------------------------------------------------
(* __call__ *)

\* variant: the bound of the assertion is off by one
AxisValidLoose(sd) == sd <= 3

\* the assertion on self.spatial_dim
AxisValid(sd) == sd < 3

\* variant: only a ROI of higher rank than the volume is refused
RoiUnsupportedLax(roi, inRank) == Len(roi) > inRank /\ Len(roi) # 2

\* variant: a ROI of rank below 2 is not refused
RoiUnsupportedAbove2(roi, inRank) == Len(roi) # inRank /\ Len(roi) > 2

\* the mismatch that cannot be broadcast: the raise RuntimeError branch
RoiUnsupported(roi, inRank) == Len(roi) # inRank /\ Len(roi) # 2

\* variant: the size-1 extent goes one position too far
NormalizeRoiShifted(roi, sd, inRank) ==
    IF Len(roi) # inRank /\ Len(roi) = 2 THEN ListInsert(roi, sd + 1, 1) ELSE roi

\* variant: the ROI is compared with the rank of the whole shape and
\* extended whenever it differs
NormalizeRoiFullShape(roi, sd, inRank) ==
    IF Len(roi) # inRank + 2 THEN ListInsert(roi, sd, 1) ELSE roi

\* variant: the ROI is extended whenever its rank does not exceed the volume's
NormalizeRoiUpTo(roi, sd, inRank) ==
    IF Len(roi) <= inRank THEN ListInsert(roi, sd, 1) ELSE roi

\* variant: a rank-2 ROI is extended whether or not the ranks differ
NormalizeRoiRank2Always(roi, sd, inRank) ==
    IF Len(roi) = 2 THEN ListInsert(roi, sd, 1) ELSE roi

\* self.roi_size after the mismatch check
NormalizeRoi(roi, sd, inRank) ==
    IF Len(roi) # inRank /\ Len(roi) = 2 THEN ListInsert(roi, sd, 1) ELSE roi

\* __call__ is entered with a volume, a network and a slice_axis
BeginCall(inp, net, sa) ==
    /\ pc = "idle"
    /\ inputs' = inp
    /\ network' = net
    /\ slice_axis' = sa
    /\ extraArgs' \in {ex \in ExtraArgs : <<sa, ex>> \in CallArgs}
    /\ UNCHANGED <<output, adapterCalls, modelCalls, modelArgc, tile,
                   squeezed, modelArg, modelOut, adapterRet>>
    /\ calls' = IF calls < MaxCalls THEN calls + 1 ELSE calls
    /\ UNCHANGED <<roi0, args0, axisGiven, normFailed>>

\* variant: the assertion comes after the mismatch block
CallAssertFailLate(inp, net, sa) ==
    /\ BeginCall(inp, net, sa)
    /\ ~AxisValid(spatial_dim)
    /\ roi_size' = NormalizeRoi(roi_size, spatial_dim, Len(Spatial(inp)))
    /\ result' = "AssertionError"
    /\ pc' = "done"
    /\ primCalls' = 0
    /\ primArgc' = 0
    /\ roiPassed' = <<>>
    /\ nTiles' = 0
    /\ UNCHANGED <<spatial_dim, sw_batch_size, cval, roiLog3>>

\* the assertion fails: AssertionError leaves __call__
CallAssertFail(inp, net, sa) ==
    /\ BeginCall(inp, net, sa)
    /\ ~AxisValid(spatial_dim)
    /\ result' = "AssertionError"
    /\ pc' = "done"
    /\ primCalls' = 0
    /\ primArgc' = 0
    /\ roiPassed' = <<>>
    /\ nTiles' = 0
    /\ UNCHANGED <<instance, roiLog3>>

\* variant: the ROI rank is checked without the assertion before it
CallUnsupportedFirst(inp, net, sa) ==
    /\ BeginCall(inp, net, sa)
    /\ RoiUnsupported(roi_size, Len(Spatial(inp)))
    /\ result' = "RuntimeError"
    /\ pc' = "done"
    /\ primCalls' = 0
    /\ primArgc' = 0
    /\ roiPassed' = <<>>
    /\ nTiles' = 0
    /\ UNCHANGED <<instance, roiLog3>>

\* the ROI can not be broadcast: RuntimeError leaves __call__
CallUnsupported(inp, net, sa) ==
    /\ BeginCall(inp, net, sa)
    /\ AxisValid(spatial_dim)
    /\ RoiUnsupported(roi_size, Len(Spatial(inp)))
    /\ result' = "RuntimeError"
    /\ pc' = "done"
    /\ primCalls' = 0
    /\ primArgc' = 0
    /\ roiPassed' = <<>>
    /\ nTiles' = 0
    /\ UNCHANGED <<instance, roiLog3>>

\* variant: __call__ stores its slice_axis argument as the instance's axis
CallDelegateStoresAxis(inp, net, sa, n) ==
    /\ BeginCall(inp, net, sa)
    /\ AxisValid(spatial_dim)
    /\ ~RoiUnsupported(roi_size, Len(Spatial(inp)))
    /\ spatial_dim' = sa
    /\ roi_size' = NormalizeRoi(roi_size, spatial_dim', Len(Spatial(inp)))
    /\ result' = "running"
    /\ pc' = "prim"
    /\ primCalls' = 1
    /\ primArgc' = 2
    /\ roiPassed' = roi_size'
    /\ nTiles' = n
    /\ roiLog3' = IF Len(Spatial(inp)) = 3 /\ Len(roiLog3) < MaxCalls
                  THEN Append(roiLog3, roi_size') ELSE roiLog3
    /\ UNCHANGED <<sw_batch_size, cval>>

\* variant: the ROI is normalized along the call's slice_axis argument
CallDelegateArgAxis(inp, net, sa, n) ==
    /\ BeginCall(inp, net, sa)
    /\ AxisValid(spatial_dim)
    /\ ~RoiUnsupported(roi_size, Len(Spatial(inp)))
    /\ roi_size' = NormalizeRoi(roi_size, sa, Len(Spatial(inp)))
    /\ result' = "running"
    /\ pc' = "prim"
    /\ primCalls' = 1
    /\ primArgc' = 2
    /\ roiPassed' = roi_size'
    /\ nTiles' = n
    /\ roiLog3' = IF Len(Spatial(inp)) = 3 /\ Len(roiLog3) < MaxCalls
                  THEN Append(roiLog3, roi_size') ELSE roiLog3
    /\ UNCHANGED <<spatial_dim, sw_batch_size, cval>>

\* the ROI is normalized and the call enters super().__call__, which
\* decides how many tile batches it forms
CallDelegate(inp, net, sa, n) ==
    /\ BeginCall(inp, net, sa)
    /\ AxisValid(spatial_dim)
    /\ ~RoiUnsupported(roi_size, Len(Spatial(inp)))
    /\ roi_size' = NormalizeRoi(roi_size, spatial_dim, Len(Spatial(inp)))
    /\ result' = "running"
    /\ pc' = "prim"
    /\ primCalls' = 1
    /\ primArgc' = 2
    /\ roiPassed' = roi_size'
    /\ nTiles' = n
    /\ roiLog3' = IF Len(Spatial(inp)) = 3 /\ Len(roiLog3) < MaxCalls
                  THEN Append(roiLog3, roi_size') ELSE roiLog3
    /\ UNCHANGED <<spatial_dim, sw_batch_size, cval>>

----------------------------------------------------------------------------
(* The sliding-window primitive and network_wrapper *)

\* what the primitive can stitch: the tile batch's batch and spatial extents
TileOk(ret, t) ==
    /\ Len(ret) = Len(t)
    /\ ret[1] = t[1]
    /\ Spatial(ret) = Spatial(t)

\* the primitive is between tiles and nothing has gone wrong so far
PrimReady ==
    /\ pc = "prim"
    /\ Len(roi_size) = Len(Spatial(inputs))
    /\ adapterCalls > 0 => TileOk(adapterRet, tile)

\* variant: the exception is swallowed and a volume is returned
RaiseSwallowed(err) ==
    /\ result' = "ok"
    /\ output' = <<inputs[1], network.cout>> \o Spatial(inputs)
    /\ pc' = "done"

\* an exception leaves the call: no handler in network_wrapper or __call__
Raise(err) ==
    /\ result' = err
    /\ output' = <<>>
    /\ pc' = "done"

\* the primitive refuses a ROI whose rank is not the volume's
PrimReject ==
    /\ pc = "prim"
    /\ Len(roi_size) # Len(Spatial(inputs))
    /\ Raise("PrimitiveError")
    /\ UNCHANGED <<instance, inputs, network, slice_axis, extraArgs,
                   primCalls, primArgc, roiPassed, nTiles, adapterCalls,
                   modelCalls, modelArgc, tile, squeezed, modelArg, modelOut,
                   adapterRet, history, normFailed>>

\* the primitive can not stitch what the adapter returned
PrimShapeError ==
    /\ pc = "prim"
    /\ Len(roi_size) = Len(Spatial(inputs))
    /\ adapterCalls > 0
    /\ ~TileOk(adapterRet, tile)
    /\ Raise("PrimitiveError")
    /\ UNCHANGED <<instance, inputs, network, slice_axis, extraArgs,
                   primCalls, primArgc, roiPassed, nTiles, adapterCalls,
                   modelCalls, modelArgc, tile, squeezed, modelArg, modelOut,
                   adapterRet, history, normFailed>>

\* the tile batch of b windows the primitive cuts from the padded volume
TileOf(b) == <<b, inputs[2]>> \o roi_size

\* variant: the test looks at the depth extent whatever the slice axis
TakesSqueezeBranchDepth(roi, sd) == ListIndex(roi, 0) = 1

\* network_wrapper's test of self.roi_size[self.spatial_dim]
TakesSqueezeBranch(roi, sd) == ListIndex(roi, sd) = 1

\* variant: the squeeze forgets the batch and channel axes
AdapterArgNoOffset(roi, sd, x) ==
    IF TakesSqueezeBranch(roi, sd) THEN Squeeze(x, sd) ELSE x

\* the tensor network_wrapper hands to the network
AdapterArg(roi, sd, x) ==
    IF TakesSqueezeBranch(roi, sd) THEN Squeeze(x, sd + 2) ELSE x

\* network_wrapper can evaluate its test and its squeeze
AdapterArgOk(roi, sd, x) ==
    /\ IndexOk(roi, sd)
    /\ TakesSqueezeBranch(roi, sd) => SqueezeOk(x, sd + 2)

\* variant: the axis is always put back as the depth axis
AdapterResultDepth(sq, sd, out) == IF sq THEN Unsqueeze(out, 2) ELSE out

\* the tensor network_wrapper returns for the network's output
AdapterResult(sq, sd, out) == IF sq THEN Unsqueeze(out, sd + 2) ELSE out

\* variant: the squeeze is written back to the volume instead of a new tensor
AdapterEnterInPlace(b) ==
    /\ PrimReady
    /\ adapterCalls < nTiles
    /\ AdapterArgOk(roi_size, spatial_dim, TileOf(b))
    /\ tile' = TileOf(b)
    /\ adapterCalls' = adapterCalls + 1
    /\ squeezed' = TakesSqueezeBranch(roi_size, spatial_dim)
    /\ modelArg' = AdapterArg(roi_size, spatial_dim, TileOf(b))
    /\ inputs' = IF squeezed' THEN modelArg' ELSE inputs
    /\ modelCalls' = modelCalls + 1
    /\ modelArgc' = 1
    /\ modelOut' = <<>>
    /\ adapterRet' = <<>>
    /\ pc' = "net"
    /\ UNCHANGED <<instance, network, slice_axis, extraArgs, result, output,
                   primCalls, primArgc, roiPassed, nTiles, history,
                   normFailed>>

\* variant: the call's further arguments are handed on to the network
AdapterEnterForwards(b) ==
    /\ PrimReady
    /\ adapterCalls < nTiles
    /\ AdapterArgOk(roi_size, spatial_dim, TileOf(b))
    /\ tile' = TileOf(b)
    /\ adapterCalls' = adapterCalls + 1
    /\ squeezed' = TakesSqueezeBranch(roi_size, spatial_dim)
    /\ modelArg' = AdapterArg(roi_size, spatial_dim, TileOf(b))
    /\ modelCalls' = modelCalls + 1
    /\ modelArgc' = 1 + extraArgs
    /\ modelOut' = <<>>
    /\ adapterRet' = <<>>
    /\ pc' = "net"
    /\ UNCHANGED <<instance, inputs, network, slice_axis, extraArgs, result,
                   output, primCalls, primArgc, roiPassed, nTiles, history,
                   normFailed>>

\* the primitive calls the adapter on the next tile batch; network_wrapper
\* runs up to its call of the network
AdapterEnter(b) ==
    /\ PrimReady
    /\ adapterCalls < nTiles
    /\ AdapterArgOk(roi_size, spatial_dim, TileOf(b))
    /\ tile' = TileOf(b)
    /\ adapterCalls' = adapterCalls + 1
    /\ squeezed' = TakesSqueezeBranch(roi_size, spatial_dim)
    /\ modelArg' = AdapterArg(roi_size, spatial_dim, TileOf(b))
    /\ modelCalls' = modelCalls + 1
    /\ modelArgc' = 1
    /\ modelOut' = <<>>
    /\ adapterRet' = <<>>
    /\ pc' = "net"
    /\ UNCHANGED <<instance, inputs, network, slice_axis, extraArgs, result,
                   output, primCalls, primArgc, roiPassed, nTiles, history,
                   normFailed>>

\* self.roi_size[self.spatial_dim] or the squeeze is out of range:
\* IndexError leaves network_wrapper before the network is called
AdapterIndexError(b) ==
    /\ PrimReady
    /\ adapterCalls < nTiles
    /\ ~AdapterArgOk(roi_size, spatial_dim, TileOf(b))
    /\ tile' = TileOf(b)
    /\ adapterCalls' = adapterCalls + 1
    /\ Raise("IndexError")
    /\ UNCHANGED <<instance, inputs, network, slice_axis, extraArgs,
                   primCalls, primArgc, roiPassed, nTiles, modelCalls,
                   modelArgc, squeezed, modelArg, modelOut, adapterRet,
                   history, normFailed>>

\* variant: network_wrapper calls the network again when it raises
NetRaiseRetry ==
    /\ pc = "net"
    /\ NetRaises(network, modelArg, modelCalls)
    /\ modelCalls' = modelCalls + 1
    /\ modelArgc' = 1
    /\ UNCHANGED <<instance, inputs, network, slice_axis, extraArgs, result,
                   output, pc, primCalls, primArgc, roiPassed, nTiles,
                   adapterCalls, tile, squeezed, modelArg, modelOut,
                   adapterRet, history, normFailed>>

\* variant: the ROI is put back to the constructor's when the network raises
NetRaiseRollsBack ==
    /\ pc = "net"
    /\ NetRaises(network, modelArg, modelCalls)
    /\ Raise("ModelError")
    /\ roi_size' = roi0
    /\ UNCHANGED <<spatial_dim, sw_batch_size, cval, inputs, network,
                   slice_axis, extraArgs, primCalls, primArgc, roiPassed,
                   nTiles, adapterCalls, modelCalls, modelArgc, tile,
                   squeezed, modelArg, modelOut, adapterRet, history,
                   normFailed>>

\* the network raises: nothing in network_wrapper or __call__ catches it
NetRaise ==
    /\ pc = "net"
    /\ NetRaises(network, modelArg, modelCalls)
    /\ Raise("ModelError")
    /\ UNCHANGED <<instance, inputs, network, slice_axis, extraArgs,
                   primCalls, primArgc, roiPassed, nTiles, adapterCalls,
                   modelCalls, modelArgc, tile, squeezed, modelArg, modelOut,
                   adapterRet, history, normFailed>>

\* variant: network_wrapper calls the network again when it has returned
NetReturnRecalls ==
    /\ pc = "net"
    /\ ~NetRaises(network, modelArg, modelCalls)
    /\ modelOut' = NetApply(network, modelArg)
    /\ adapterRet' = <<>>
    /\ pc' = "net"
    /\ UNCHANGED <<instance, inputs, network, slice_axis, extraArgs, result,
                   output, primCalls, primArgc, roiPassed, nTiles,
                   adapterCalls, modelCalls, modelArgc, tile, squeezed,
                   modelArg, history, normFailed>>

\* the network returns and network_wrapper returns to the primitive
NetReturn ==
    /\ pc = "net"
    /\ ~NetRaises(network, modelArg, modelCalls)
    /\ modelOut' = NetApply(network, modelArg)
    /\ adapterRet' = AdapterResult(squeezed, spatial_dim, modelOut')
    /\ pc' = "prim"
    /\ UNCHANGED <<instance, inputs, network, slice_axis, extraArgs, result,
                   output, primCalls, primArgc, roiPassed, nTiles,
                   adapterCalls, modelCalls, modelArgc, tile, squeezed,
                   modelArg, history, normFailed>>

\* all tile batches are in: the primitive stitches them into a volume of
\* the input's batch and spatial extents and super().__call__ returns it
PrimStitch ==
    /\ PrimReady
    /\ adapterCalls = nTiles
    /\ result' = "ok"
    /\ output' = <<inputs[1], adapterRet[2]>> \o Spatial(inputs)
    /\ pc' = "done"
    /\ UNCHANGED <<instance, inputs, network, slice_axis, extraArgs,
                   primCalls, primArgc, roiPassed, nTiles, adapterCalls,
                   modelCalls, modelArgc, tile, squeezed, modelArg, modelOut,
                   adapterRet, history, normFailed>>

\* <<result, output>> of __call__(inp, net) on an instance as constructed
\* with ROI roi and axis sd, the primitive forming n tile batches: the
\* assertion, the rank check, the normalization, then tile batch by tile
\* batch the adapter, the network and the primitive's stitching
FreshOutcome(roi, sd, inp, net, n) ==
    LET rank == Len(Spatial(inp))
        r == NormalizeRoi(roi, sd, rank)
        t == <<1, inp[2]>> \o r
        x == AdapterArg(r, sd, t)
        ret == AdapterResult(TakesSqueezeBranch(r, sd), sd, NetApply(net, x))
    IN  IF ~AxisValid(sd) THEN <<"AssertionError", <<>>>>
        ELSE IF RoiUnsupported(roi, rank) THEN <<"RuntimeError", <<>>>>
        ELSE IF Len(r) # rank THEN <<"PrimitiveError", <<>>>>
        ELSE IF ~AdapterArgOk(r, sd, t) THEN <<"IndexError", <<>>>>
        ELSE IF NetRaises(net, x, 1) THEN <<"ModelError", <<>>>>
        ELSE IF ~TileOk(ret, t) THEN <<"PrimitiveError", <<>>>>
        ELSE IF net.failOn \in 2..n THEN <<"ModelError", <<>>>>
        ELSE <<"ok", <<inp[1], ret[2]>> \o Spatial(inp)>>

\* the failures that leave a call after it entered super().__call__
DelegationFailures == {"PrimitiveError", "IndexError", "ModelError"}

\* __call__ has returned or raised and the caller has taken the outcome;
\* the instance is ready for its next call
Return ==
    /\ pc = "done"
    /\ pc' = "idle"
    /\ inputs' = <<>>
    /\ network' = NoNetwork
    /\ slice_axis' = 0
    /\ extraArgs' = 0
    /\ result' = "none"
    /\ output' = <<>>
    /\ primCalls' = 0
    /\ primArgc' = 0
    /\ roiPassed' = <<>>
    /\ nTiles' = 0
    /\ adapterCalls' = 0
    /\ modelCalls' = 0
    /\ modelArgc' = 0
    /\ tile' = <<>>
    /\ squeezed' = FALSE
    /\ modelArg' = <<>>
    /\ modelOut' = <<>>
    /\ adapterRet' = <<>>
    /\ normFailed' = (\/ normFailed
                      \/ /\ calls = 1
                         /\ primCalls = 1
                         /\ roiPassed # roi0
                         /\ result \in DelegationFailures)
    /\ UNCHANGED <<instance, history>>

----------------------------------------------------------------------------
Next ==
    \/ \E sd \in SpatialDims, roi \in RoiSizes, bs \in BatchSizes, cv \in CVals :
          ConstructWithAxis(sd, roi, bs, cv)
    \/ \E roi \in RoiSizes, bs \in BatchSizes, cv \in CVals :
          ConstructDefaultAxis(roi, bs, cv)
    \/ \E inp \in Volumes, net \in Networks, sa \in SliceAxisArgs :
          CallAssertFail(inp, net, sa)
    \/ \E inp \in Volumes, net \in Networks, sa \in SliceAxisArgs :
          CallUnsupported(inp, net, sa)
    \/ \E inp \in Volumes, net \in Networks, sa \in SliceAxisArgs, n \in 1..MaxTiles :
          CallDelegate(inp, net, sa, n)
    \/ PrimReject
    \/ PrimShapeError
    \/ \E b \in 1..sw_batch_size : AdapterEnter(b)
    \/ \E b \in 1..sw_batch_size : AdapterIndexError(b)
    \/ NetRaise
    \/ NetReturn
    \/ PrimStitch
    \/ Return

Spec == Init /\ [][Next]_vars

\* the steps of a call in progress: the primitive's and network_wrapper's
CallStep ==
    \/ PrimReject
    \/ PrimShapeError
    \/ \E b \in 1..sw_batch_size : AdapterEnter(b)
    \/ \E b \in 1..sw_batch_size : AdapterIndexError(b)
    \/ NetRaise
    \/ NetReturn
    \/ PrimStitch

\* __call__ runs synchronously on the caller's thread: a call in progress
\* keeps taking its next step, the primitive forming nTiles tile batches
\* and every call of the network returning or raising
LiveSpec == Spec /\ WF_vars(CallStep)

TypeOK ==
    /\ pc \in {"new", "idle", "prim", "net", "done"}
    /\ spatial_dim \in SpatialDims
    /\ sw_batch_size \in BatchSizes
    /\ cval \in CVals
    /\ result \in {"none", "running", "ok", "AssertionError", "RuntimeError",
                   "PrimitiveError", "IndexError", "ModelError"}
    /\ primCalls \in 0..1
    /\ adapterCalls \in 0..MaxTiles
    /\ modelCalls \in 0..MaxTiles
    /\ calls \in 0..MaxCalls
    /\ slice_axis \in SliceAxisArgs
    /\ Len(roiLog3) <= MaxCalls
    /\ extraArgs \in ExtraArgs
    /\ primArgc \in {0, 2}
    /\ modelArgc \in {0, 1}
    /\ normFailed \in BOOLEAN

----------------------------------------------------------------------------
(* Properties *)

ValidAxes == 0 .. 2

\* the rank-3 ROI with 1 at position a and the extents of r elsewhere
ExpectedRoi(r, a) ==
    CASE a = 0 -> <<1, r[1], r[2]>>
      [] a = 1 -> <<r[1], 1, r[2]>>
      [] a = 2 -> <<r[1], r[2], 1>>

\* x without its spatial axis a
RemoveAxis(x, a) ==
    [i \in 1..(Len(x) - 1) |-> IF i < a + 3 THEN x[i] ELSE x[i + 1]]

\* x with a size-1 spatial axis a put in
InsertAxis(x, a) ==
    [i \in 1..(Len(x) + 1) |->
        IF i < a + 3 THEN x[i] ELSE IF i = a + 3 THEN 1 ELSE x[i - 1]]

Failures == {"AssertionError", "RuntimeError", "PrimitiveError",
             "IndexError", "ModelError"}

\* C1: a wrapper built with a rank-2 ROI (h, w) and a slice axis a in
\* {0,1,2} has, from its first call on a volume of spatial rank 3 on, the
\* stored ROI with 1 at position a and h, w at the other two positions.
C1_RoiNormalization ==
    (/\ Len(roi0) = 2
     /\ spatial_dim \in ValidAxes
     /\ calls >= 1
     /\ Len(Spatial(inputs)) = 3)
    => roi_size = ExpectedRoi(roi0, spatial_dim)

C1_Witness ==
    /\ calls = 1
    /\ roi0 = <<2, 2>>
    /\ spatial_dim = 1
    /\ inputs = <<1, 1, 2, 3, 4>>
    /\ roi_size = <<2, 1, 2>>
    /\ pc = "done"
    /\ result = "ok"

\* C2: all calls with a volume of spatial rank 3 that reach the primitive
\* hand it the same ROI, and the stored ROI stays that ROI.
C2_IdempotentCaching ==
    /\ \A i \in DOMAIN roiLog3 : roiLog3[i] = roiLog3[1]
    /\ roiLog3 # <<>> => roi_size = roiLog3[1]
    /\ (primCalls = 1 /\ Len(Spatial(inputs)) = 3) => roiPassed = roi_size

C2_Witness ==
    /\ Len(roiLog3) = 2
    /\ Len(roi0) = 2
    /\ calls = 2
    /\ inputs = <<2, 1, 4, 4, 3>>
    /\ roiPassed = roiLog3[1]
    /\ Len(roiPassed) = 3
    /\ result = "ok"

\* C3 (as claimed): with a slice axis outside {0,1,2}, negative ones
\* included, every call fails with the assertion error before the ROI is
\* normalized or the primitive is invoked.
C3_AxisOutsideRangeRejected ==
    (spatial_dim \notin ValidAxes /\ calls >= 1)
    => /\ pc \in {"idle", "done"}
       /\ pc = "done" => result = "AssertionError"
       /\ primCalls = 0
       /\ roi_size = roi0

\* C4: a wrapper with slice axis 3 is constructed without error, and every
\* call on it fails with the assertion error; it never reaches the
\* primitive or the network and never returns a volume.
C4_DeferredValidation ==
    (spatial_dim = 3 /\ pc # "new")
    => /\ pc \in {"idle", "done"}
       /\ pc = "done" <=> result = "AssertionError"
       /\ pc = "idle" <=> result = "none"
       /\ primCalls = 0
       /\ modelCalls = 0
       /\ output = <<>>
       /\ roi_size = roi0

C4_Witness ==
    /\ spatial_dim = 3
    /\ calls = 2
    /\ pc = "done"
    /\ result = "AssertionError"

\* C5: a call with a slice axis in {0,1,2} on a wrapper whose stored ROI
\* has a rank that is neither 2 nor the volume's spatial rank fails with
\* RuntimeError without invoking the primitive or the network.
C5_UnsupportedRoiRank ==
    [][(/\ pc = "idle"
        /\ spatial_dim \in ValidAxes
        /\ Len(roi_size) # 2
        /\ Len(roi_size) # Len(Spatial(inputs')))
       => (/\ pc' = "done"
           /\ result' = "RuntimeError"
           /\ primCalls' = 0
           /\ adapterCalls' = 0
           /\ modelCalls' = 0
           /\ output' = <<>>)]_vars

C5_Witness ==
    /\ pc = "done"
    /\ result = "RuntimeError"
    /\ spatial_dim \in ValidAxes
    /\ Len(roi_size) = 3
    /\ Len(Spatial(inputs)) = 2
    /\ primCalls = 0

\* C6: a call with a volume (N, C, D, H, W), a slice axis in {0,1,2}, a
\* rank-2 ROI and a 2D network with C_out output channels that does not
\* raise returns a volume of shape (N, C_out, D, H, W).
C6_OutputShape ==
    (/\ pc = "done"
     /\ calls >= 1
     /\ Len(roi0) = 2
     /\ spatial_dim \in ValidAxes
     /\ Len(inputs) = 5
     /\ network.dims = 2)
    => /\ network.failOn = 0 => result = "ok"
       /\ result = "ok" =>
            output = <<inputs[1], network.cout, inputs[3], inputs[4], inputs[5]>>

C6_Witness ==
    /\ pc = "done"
    /\ roi0 = <<2, 2>>
    /\ spatial_dim = 1
    /\ inputs = <<2, 1, 4, 4, 3>>
    /\ network.dims = 2
    /\ network.cout = 2
    /\ result = "ok"
    /\ output = <<2, 2, 4, 4, 3>>

\* C7: when the stored ROI has extent 1 along the slice axis a, the adapter
\* invokes the network on the tile without its spatial axis a and returns
\* the network's output with a size-1 axis put back at position a.
C7_AdapterSqueezeBranch ==
    (/\ spatial_dim \in ValidAxes
     /\ modelArg # <<>>
     /\ Len(roi_size) = 3
     /\ roi_size[spatial_dim + 1] = 1)
    => /\ Len(tile) = 5
       /\ tile[spatial_dim + 3] = 1
       /\ modelArg = RemoveAxis(tile, spatial_dim)
       /\ adapterRet # <<>> =>
            /\ adapterRet = InsertAxis(modelOut, spatial_dim)
            /\ Len(adapterRet) = 5
            /\ adapterRet[spatial_dim + 3] = 1

C7_Witness ==
    /\ spatial_dim = 2
    /\ roi_size = <<2, 1, 1>>
    /\ tile = <<2, 1, 2, 1, 1>>
    /\ modelArg = <<2, 1, 2, 1>>
    /\ modelOut = <<2, 2, 2, 1>>
    /\ adapterRet = <<2, 2, 2, 1, 1>>

\* C8: when the stored ROI's extent along the slice axis is not 1, the
\* adapter invokes the network on the tile as received and returns the
\* network's output as it is, whatever the other extents are.
C8_AdapterPassThrough ==
    (/\ spatial_dim \in ValidAxes
     /\ modelArg # <<>>
     /\ spatial_dim < Len(roi_size)
     /\ roi_size[spatial_dim + 1] # 1)
    => /\ modelArg = tile
       /\ adapterRet # <<>> => adapterRet = modelOut

C8_Witness ==
    /\ spatial_dim = 1
    /\ roi_size = <<1, 2, 2>>
    /\ tile = <<1, 1, 1, 2, 2>>
    /\ modelArg = tile
    /\ modelOut = <<1, 2, 1, 2, 2>>
    /\ adapterRet = modelOut

\* C9: when the network raises on a tile, or the primitive fails, the call
\* ends there with that failure and without an output volume.
C9_ErrorPropagation ==
    [][/\ (pc = "net" /\ NetRaises(network, modelArg, modelCalls))
          => (pc' = "done" /\ result' = "ModelError" /\ output' = <<>>)
       /\ (pc = "prim" /\ ~PrimReady)
          => (pc' = "done" /\ result' = "PrimitiveError" /\ output' = <<>>)
       /\ (result' \in Failures) => (pc' = "done" /\ output' = <<>>)]_vars

C9_Witness ==
    /\ pc = "done"
    /\ result = "ModelError"
    /\ network.failOn = 2
    /\ modelCalls = 2
    /\ adapterCalls = 2
    /\ output = <<>>

\* C10: a call invokes the primitive at most once, and an invocation of
\* the network that raises is the last one of its call.
C10_NoRetry ==
    /\ primCalls <= 1
    /\ modelCalls <= adapterCalls
    /\ adapterCalls <= nTiles
    /\ network.failOn >= 1 => modelCalls <= network.failOn
    /\ (modelCalls >= 1 /\ (Len(modelArg) # network.dims + 2 \/ modelArg[2] # network.cin))
       => modelCalls = 1
    /\ result = "ModelError" => (pc = "done" /\ NetRaises(network, modelArg, modelCalls))

C10_Witness ==
    /\ pc = "done"
    /\ result = "ModelError"
    /\ network.failOn = 1
    /\ nTiles = 2
    /\ modelCalls = 1
    /\ adapterCalls = 1
    /\ primCalls = 1

\* C11: after construction the slice axis, the tiling batch size and the
\* fill value always have the values the constructor stored; of the
\* instance's fields only the stored ROI may differ from what was
\* constructed.
C11_OnlyRoiChanges ==
    pc # "new"
    => /\ spatial_dim = args0.spatial_dim
       /\ sw_batch_size = args0.sw_batch_size
       /\ cval = args0.cval

C11_Witness ==
    /\ pc = "done"
    /\ calls = 2
    /\ roi_size # roi0
    /\ spatial_dim = 2
    /\ slice_axis = 0
    /\ sw_batch_size = 2
    /\ adapterRet # <<>>
    /\ result = "ok"

\* C12: after construction the stored ROI changes only from the rank-2
\* value it was constructed with to a rank-3 value, hence at most once;
\* a stored ROI of rank 3 is never changed again.
C12_OneTimeNormalization ==
    [][pc # "new"
       => /\ roi_size' # roi_size
             => (Len(roi_size) = 2 /\ Len(roi_size') = 3 /\ roi_size = roi0)
          /\ Len(roi_size) = 3 => roi_size' = roi_size]_vars

C12_Witness ==
    /\ pc = "done"
    /\ calls = 2
    /\ Len(roi0) = 2
    /\ Len(roi_size) = 3
    /\ Len(roiLog3) = 1
    /\ Len(Spatial(inputs)) = 2
    /\ result = "RuntimeError"

\* C13 (as claimed): a call on a volume whose spatial rank equals the
\* stored ROI's rank leaves the stored ROI as it was and is delegated to
\* the primitive with that ROI.
C13_NoOpNormalizationAlwaysDelegated ==
    [][(pc = "idle" /\ Len(roi_size) = Len(Spatial(inputs')))
       => (/\ roi_size' = roi_size
           /\ pc' = "prim"
           /\ primCalls' = 1
           /\ roiPassed' = roi_size)]_vars

\* C13 (amended): a call on a volume whose spatial rank equals the stored
\* ROI's rank leaves the stored ROI as it was; when the slice-axis
\* assertion passes (spatial_dim < 3) it is delegated to the primitive with
\* that ROI, otherwise it fails with the assertion error.
C13_NoOpNormalization ==
    [][(pc = "idle" /\ Len(roi_size) = Len(Spatial(inputs')))
       => /\ roi_size' = roi_size
          /\ spatial_dim < 3
             => (pc' = "prim" /\ primCalls' = 1 /\ roiPassed' = roi_size)
          /\ spatial_dim >= 3
             => (pc' = "done" /\ primCalls' = 0 /\ result' = "AssertionError")]_vars

C13_Witness ==
    /\ pc = "prim"
    /\ calls = 1
    /\ roi0 = <<2, 1, 2>>
    /\ roi_size = roi0
    /\ roiPassed = roi0
    /\ inputs = <<1, 1, 2, 3, 4>>
    /\ primCalls = 1

\* C14: whenever a call on a volume of spatial rank 3 has reached the
\* primitive, the ROI the primitive was entered with, and the stored ROI,
\* have rank 3.
C14_DelegatedRoiRank ==
    (primCalls = 1 /\ Len(Spatial(inputs)) = 3)
    => (Len(roiPassed) = 3 /\ Len(roi_size) = 3)

C14_Witness ==
    /\ pc = "prim"
    /\ primCalls = 1
    /\ roi0 = <<2, 2>>
    /\ spatial_dim = 2
    /\ inputs = <<2, 1, 4, 4, 3>>
    /\ roiPassed = <<2, 2, 1>>

\* C15 (as claimed): every call ends with the outcome (the returned
\* volume or the failure) that the same call has as the first call on a
\* freshly constructed instance with the same construction parameters.
C15_DeterminismAcrossHistory ==
    pc = "done"
    => <<result, output>> =
          FreshOutcome(roi0, args0.spatial_dim, inputs, network, nTiles)

\* C16: from the entry of a call to its return or failure, no step of
\* __call__, of the primitive or of the adapter changes the caller's
\* volume.
C16_InputImmutability ==
    [][(pc = "prim" \/ pc = "net") => (inputs' = inputs)]_vars

C16_Witness ==
    /\ pc = "done"
    /\ result = "ok"
    /\ squeezed
    /\ inputs = <<1, 1, 2, 3, 4>>
    /\ tile = <<1, 1, 1, 2, 2>>
    /\ modelArg = <<1, 1, 2, 2>>
    /\ adapterCalls = 2

\* C17: the constructor succeeds for every slice axis and every ROI, and
\* right after it the ROI is stored as given (a rank-2 ROI still has rank
\* 2), the other arguments are stored, and neither the primitive nor the
\* network has been invoked.
C17_ConstructionOnlyStores ==
    /\ pc = "new"
       => \A sd \in SpatialDims, roi \in RoiSizes, bs \in BatchSizes, cv \in CVals :
             ENABLED ConstructWithAxis(sd, roi, bs, cv)
    /\ (pc = "idle" /\ calls = 0)
       => /\ roi_size = roi0
          /\ roi_size \in RoiSizes
          /\ spatial_dim = args0.spatial_dim
          /\ sw_batch_size = args0.sw_batch_size
          /\ cval = args0.cval
          /\ result = "none"
          /\ output = <<>>
          /\ primCalls = 0
          /\ adapterCalls = 0
          /\ modelCalls = 0
          /\ roiLog3 = <<>>

C17_Witness ==
    /\ pc = "idle"
    /\ calls = 0
    /\ axisGiven
    /\ spatial_dim = 3
    /\ roi_size = <<2, 2>>
    /\ primCalls = 0
    /\ modelCalls = 0

\* C18: a wrapper constructed without a slice axis has axis 0 and
\* normalizes a rank-2 ROI (h, w) to (1, h, w); the normalization and the
\* adapter's squeeze and unsqueeze use the constructor's axis, and the
\* outcome of a call does not depend on its slice_axis argument.
C18_AxisFixedAtConstruction ==
    /\ (~axisGiven /\ pc # "new") => spatial_dim = 0
    /\ (~axisGiven /\ Len(roi0) = 2 /\ Len(Spatial(inputs)) = 3)
       => roi_size = <<1, roi0[1], roi0[2]>>
    /\ (args0.spatial_dim \in ValidAxes /\ Len(roi0) = 2 /\ roi_size # roi0)
       => roi_size = ExpectedRoi(roi0, args0.spatial_dim)
    /\ (args0.spatial_dim \in ValidAxes /\ modelArg # <<>> /\ squeezed)
       => /\ modelArg = RemoveAxis(tile, args0.spatial_dim)
          /\ adapterRet # <<>>
             => adapterRet = InsertAxis(modelOut, args0.spatial_dim)
    /\ (pc = "done" /\ calls = 1)
       => <<result, output>> =
             FreshOutcome(roi0, args0.spatial_dim, inputs, network, nTiles)

C18_Witness ==
    /\ pc = "done"
    /\ ~axisGiven
    /\ slice_axis = 2
    /\ roi0 = <<2, 2>>
    /\ roi_size = <<1, 2, 2>>
    /\ squeezed
    /\ modelArg = <<1, 1, 2, 2>>
    /\ adapterRet = <<1, 2, 1, 2, 2>>
    /\ result = "ok"

\* C19: a call that has entered the primitive eventually ends, and a call
\* that has ended has exactly one of two outcomes: an output volume was
\* returned, or a failure was propagated; never both and never neither.
C19_CallCompletion ==
    /\ [](pc = "done" => ((output # <<>>) # (result \in Failures)))
    /\ [](pc = "done" => (output # <<>> <=> result = "ok"))
    /\ (pc = "prim" \/ pc = "net") ~> (pc = "done")

C19_Witness ==
    /\ pc = "done"
    /\ calls = 2
    /\ adapterCalls = 2
    /\ modelCalls = 2
    /\ result = "ok"
    /\ output = <<1, 2, 2, 3, 4>>

\* C20: every invocation of the adapter by the primitive invokes the model
\* exactly once, whichever branch it takes, so within one call the number
\* of model invocations equals the number of adapter invocations.
C20_OneModelCallPerAdapterCall ==
    /\ modelCalls = adapterCalls
    /\ [][adapterCalls' = adapterCalls + 1 => modelCalls' = modelCalls + 1]_vars

\* C21: a call that fails with the wrapper's own AssertionError or
\* RuntimeError leaves the stored ROI exactly as it was before the call,
\* and neither the primitive nor the network has been invoked in it.
C21_StateUnchangedOnWrapperErrors ==
    [][(pc = "idle" /\ (result' = "AssertionError" \/ result' = "RuntimeError"))
       => (/\ roi_size' = roi_size
           /\ primCalls' = 0
           /\ adapterCalls' = 0
           /\ modelCalls' = 0)]_vars

C21_Witness ==
    /\ pc = "done"
    /\ calls = 2
    /\ result = "RuntimeError"
    /\ roi0 = <<2, 2>>
    /\ roi_size = <<1, 2, 2>>
    /\ inputs = <<1, 1, 2, 3, 4, 2>>
    /\ primCalls = 0
    /\ modelCalls = 0

\* C22: a call on a wrapper with a slice axis of 3 or more and a stored ROI
\* whose rank is neither 2 nor the volume's spatial rank fails with
\* AssertionError, not RuntimeError: the slice-axis check precedes the ROI
\* rank check, so RuntimeError is only raised when the axis check passed.
C22_ValidationOrder ==
    /\ [][(/\ pc = "idle"
           /\ spatial_dim >= 3
           /\ Len(roi_size) # 2
           /\ Len(roi_size) # Len(Spatial(inputs')))
          => (pc' = "done" /\ result' = "AssertionError")]_vars
    /\ [][(pc = "idle" /\ result' = "RuntimeError") => spatial_dim < 3]_vars

C22_Witness ==
    /\ pc = "done"
    /\ result = "AssertionError"
    /\ spatial_dim = 3
    /\ roi_size = <<2, 1, 2>>
    /\ inputs = <<1, 1, 4, 3>>
    /\ primCalls = 0

\* C23: when the first call on a wrapper built with a rank-2 ROI normalizes
\* the ROI and then fails in the primitive or the network, the stored ROI
\* stays the rank-3 ROI (no roll-back), and a later call on a volume of
\* spatial rank 3 hands the primitive exactly that ROI, nothing inserted.
C23_NormalizationSurvivesFailure ==
    /\ (/\ pc = "done"
        /\ calls = 1
        /\ primCalls = 1
        /\ roiPassed # roi0
        /\ result \in DelegationFailures)
       => (roi_size = roiPassed /\ Len(roi_size) = 3)
    /\ normFailed
       => (/\ Len(roi0) = 2
           /\ roi_size = ListInsert(roi0, spatial_dim, 1)
           /\ (primCalls = 1 /\ Len(Spatial(inputs)) = 3)
              => roiPassed = ListInsert(roi0, spatial_dim, 1))

C23_Witness ==
    /\ normFailed
    /\ pc = "done"
    /\ calls = 2
    /\ roi0 = <<2, 2>>
    /\ inputs = <<1, 1, 2, 3, 4>>
    /\ roiPassed = <<2, 1, 2>>
    /\ roi_size = <<2, 1, 2>>
    /\ result = "ok"

\* C24: on a wrapper built with a rank-2 ROI (and a slice axis that passes
\* the assertion), a call on a volume of spatial rank 2 is delegated to the
\* primitive and does not fail with RuntimeError, whatever calls the
\* instance served before.
C24_RankHistoryIndependence ==
    [][(/\ pc = "idle"
        /\ Len(roi0) = 2
        /\ spatial_dim < 3
        /\ Len(Spatial(inputs')) = 2)
       => (pc' = "prim" /\ primCalls' = 1 /\ result' # "RuntimeError")]_vars

\* C25: whenever the primitive has been invoked, the rank of the ROI it was
\* handed equals the spatial rank of the volume, for volumes of spatial
\* rank 1 to 4 and ROIs of any rank; a combination that can not be brought
\* to equal rank ends in RuntimeError before the primitive.
C25_RankAgreementAtDelegation ==
    /\ primCalls = 1
       => (/\ Len(roiPassed) = Len(Spatial(inputs))
           /\ Len(roi_size) = Len(Spatial(inputs)))
    /\ (/\ pc = "done"
        /\ spatial_dim < 3
        /\ Len(roi_size) # Len(Spatial(inputs)))
       => (result = "RuntimeError" /\ primCalls = 0)

\* C26: once a call that passed the slice-axis assertion has normalized a
\* rank-2 ROI, the stored ROI has extent 1 at index spatial_dim, the
\* adapter takes the 2D branch for every tile and the network only ever
\* receives tensors of spatial rank 2.
C26_SqueezeBranchAfterNormalization ==
    (Len(roi0) = 2 /\ Len(roi_size) = 3 /\ spatial_dim < 3)
    => (/\ ListIndex(roi_size, spatial_dim) = 1
        /\ modelArg # <<>> => (squeezed /\ Len(Spatial(modelArg)) = 2))

\* the ROI a wrapper built with ROI r and axis a works with on volumes of
\* spatial rank 3: r itself when it has rank 3, else r with 1 put in at a
CanonicalRoi(r, a) == IF Len(r) = 2 THEN ExpectedRoi(r, a) ELSE r

\* C27: for a slice axis a in {0,1,2} and volumes of spatial rank 3, a
\* wrapper built with the rank-3 ROI that has 1 at position a and (h, w)
\* elsewhere behaves as the wrapper built with the rank-2 ROI (h, w) and
\* axis a: in every call the ROI handed to the primitive, the adapter's
\* branch, the tensor handed to the network and the outcome are those
\* determined by the rank-3 ROI, the same for both wrappers.
C27_PreNormalizedRoiEquivalence ==
    (/\ spatial_dim \in ValidAxes
     /\ Len(Spatial(inputs)) = 3
     /\ primCalls = 1
     /\ \/ Len(roi0) = 2
        \/ Len(roi0) = 3 /\ roi0[spatial_dim + 1] = 1)
    => LET c == CanonicalRoi(roi0, spatial_dim)
       IN  /\ roiPassed = c
           /\ roi_size = c
           /\ modelArg # <<>>
              => (/\ squeezed = TakesSqueezeBranch(c, spatial_dim)
                  /\ squeezed
                  /\ tile = <<tile[1], inputs[2]>> \o c
                  /\ modelArg = RemoveAxis(tile, spatial_dim))
           /\ pc = "done"
              => <<result, output>> =
                    FreshOutcome(c, spatial_dim, inputs, network, nTiles)

C27_Witness ==
    /\ pc = "done"
    /\ calls = 2
    /\ roi0 = <<2, 1, 2>>
    /\ spatial_dim = 1
    /\ inputs = <<1, 1, 2, 3, 4>>
    /\ roiPassed = <<2, 1, 2>>
    /\ squeezed
    /\ modelArg = <<1, 1, 2, 2>>
    /\ result = "ok"
    /\ output = <<1, 1, 2, 3, 4>>

\* C28: whenever the adapter has removed the slice axis from a tile, the
\* tile had spatial rank 3, so the network never receives a tensor of
\* spatial rank below 2; for a volume of spatial rank 2 and a rank-2 ROI
\* the tile reaches the network with both spatial axes, also when the
\* ROI's extent at index spatial_dim is 1.
C28_AxisRemovalOnlyFromRank3Tiles ==
    modelArg # <<>>
    => (/\ modelArg # tile => Len(Spatial(tile)) = 3
        /\ Len(Spatial(modelArg)) >= 2
        /\ (Len(Spatial(inputs)) = 2 /\ Len(roi_size) = 2) => modelArg = tile)

\* C29: whatever further arguments a call is given, the primitive is
\* invoked with two arguments only, the volume and the adapter, and every
\* invocation of the network receives exactly one argument, the tile.
C29_ExtraArgsNotForwarded ==
    /\ primCalls = 1 => primArgc = 2
    /\ modelCalls > 0 => modelArgc = 1
    /\ primCalls = 0 => (primArgc = 0 /\ modelArgc = 0)

C29_Witness ==
    /\ pc = "done"
    /\ extraArgs = 1
    /\ primCalls = 1
    /\ primArgc = 2
    /\ modelCalls = 2
    /\ modelArgc = 1
    /\ squeezed
    /\ result = "ok"

====
